---- MODULE Spec2Model ----
(***************************************************************************)
(* Model of the vehicle auto-tagger webhook service (src/app.py).          *)
(*                                                                         *)
(* Text is modelled at character level: a Python str is a sequence of      *)
(* one-character strings, so that normalisation, splitting and the regular *)
(* expressions of the extractor are computed as the code computes them.    *)
(* Python's None is the distinguished value None below.                    *)
(***************************************************************************)
EXTENDS Integers, Sequences, FiniteSets, TLC

\* ------------------------------------------------------------------------
\* Characters and strings
\* ------------------------------------------------------------------------

\* A TLA+ string literal as a sequence of characters.
Chars(str) == [i \in 1..Len(str) |-> SubSeq(str, i, i)]

\* The set of characters of a string literal.
CharSet(str) == {SubSeq(str, i, i) : i \in 1..Len(str)}

\* Python's None; no character sequence equals it.
None == <<"<None>">>

UpperSeq == Chars("ABCDEFGHIJKLMNOPQRSTUVWXYZ")
LowerSeq == Chars("abcdefghijklmnopqrstuvwxyz")
Upper == CharSet("ABCDEFGHIJKLMNOPQRSTUVWXYZ")
Lower == CharSet("abcdefghijklmnopqrstuvwxyz")
Digit == CharSet("0123456789")

\* str.lower() and str.upper() on one character.
LowerOf ==
    [c \in Upper |-> LowerSeq[CHOOSE i \in 1..Len(UpperSeq) : UpperSeq[i] = c]]
UpperOf ==
    [c \in Lower |-> UpperSeq[CHOOSE i \in 1..Len(LowerSeq) : LowerSeq[i] = c]]
ToLower(c) == IF c \in Upper THEN LowerOf[c] ELSE c
ToUpper(c) == IF c \in Lower THEN UpperOf[c] ELSE c

\* str.lower()
lower(s) == [i \in 1..Len(s) |-> ToLower(s[i])]

\* \w of the re module (ASCII part): letters, digits and the underscore.
WordChars == Upper \cup Lower \cup Digit \cup {"_"}
IsWordChar(c) == c \in WordChars

\* \s and str.split()/str.strip() whitespace; the space is the only
\* whitespace character of the modelled alphabet.
IsSpace(c) == c = " "

\* Python truthiness of an optional string: None and "" are falsy.
Truthy(x) == x # None /\ x # << >>

\* ------------------------------------------------------------------------
\* Regular expressions (the subset of Python's re the program uses)
\* ------------------------------------------------------------------------
\* A pattern is a tree; Ends(r, s, i, ic) is the sequence of positions at
\* which a match of r starting at position i of s can end, in the order in
\* which a backtracking matcher tries them (greedy repetition, leftmost
\* alternative first).  ic is re.IGNORECASE.

Lit(str) == [t |-> "lit", s |-> Chars(str)]
Cls(cs) == [t |-> "cls", cs |-> cs]
Cat(rs) == [t |-> "cat", rs |-> rs]
Alt(rs) == [t |-> "alt", rs |-> rs]
Rep(r, lo, hi) == [t |-> "rep", r |-> r, lo |-> lo, hi |-> hi, inf |-> FALSE]
Plus(r) == [t |-> "rep", r |-> r, lo |-> 1, hi |-> 1, inf |-> TRUE]
Star(r) == [t |-> "rep", r |-> r, lo |-> 0, hi |-> 0, inf |-> TRUE]
Opt(r) == [t |-> "rep", r |-> r, lo |-> 0, hi |-> 1, inf |-> FALSE]
WordB == [t |-> "wb"]
EndA == [t |-> "end"]
AltLits(strs) == Alt([k \in 1..Len(strs) |-> Lit(strs[k])])

CharEq(c, p, ic) == c = p \/ (ic /\ ToLower(c) = ToLower(p))

\* A character class; under IGNORECASE a character also matches when its
\* other case is in the class.
InClass(c, cs, ic) ==
    \/ c \in cs
    \/ ic /\ (ToLower(c) \in cs \/ ToUpper(c) \in cs)

\* \b: the characters on the two sides differ in being word characters.
AtWordBoundary(s, i) ==
    LET before == i > 1 /\ IsWordChar(s[i - 1])
        after == i <= Len(s) /\ IsWordChar(s[i])
    IN  before # after

RECURSIVE Ends(_, _, _, _)
RECURSIVE CatEnds(_, _, _, _, _)
RECURSIVE CatFrom(_, _, _, _, _)
RECURSIVE AltEnds(_, _, _, _, _)
RECURSIVE RepEnds(_, _, _, _, _)
RECURSIVE RepFrom(_, _, _, _, _)

Ends(r, s, i, ic) ==
    CASE r.t = "lit" ->
            IF /\ i + Len(r.s) - 1 <= Len(s)
               /\ \A k \in 1..Len(r.s) : CharEq(s[i + k - 1], r.s[k], ic)
            THEN <<i + Len(r.s)>> ELSE << >>
      [] r.t = "cls" ->
            IF i <= Len(s) /\ InClass(s[i], r.cs, ic) THEN <<i + 1>> ELSE << >>
      [] r.t = "cat" -> CatEnds(r.rs, 1, s, i, ic)
      [] r.t = "alt" -> AltEnds(r.rs, 1, s, i, ic)
      [] r.t = "rep" -> RepEnds(r, 0, s, i, ic)
      [] r.t = "wb" -> IF AtWordBoundary(s, i) THEN <<i>> ELSE << >>
      [] r.t = "end" -> IF i = Len(s) + 1 THEN <<i>> ELSE << >>

\* rs[k], rs[k+1], ... in sequence from position i.
CatEnds(rs, k, s, i, ic) ==
    IF k > Len(rs) THEN <<i>>
    ELSE CatFrom(rs, k + 1, s, Ends(rs[k], s, i, ic), ic)

CatFrom(rs, k, s, starts, ic) ==
    IF starts = << >> THEN << >>
    ELSE CatEnds(rs, k, s, Head(starts), ic) \o CatFrom(rs, k, s, Tail(starts), ic)

AltEnds(rs, k, s, i, ic) ==
    IF k > Len(rs) THEN << >>
    ELSE Ends(rs[k], s, i, ic) \o AltEnds(rs, k + 1, s, i, ic)

\* Greedy repetition: n copies of r.r have matched before position i.
RepEnds(r, n, s, i, ic) ==
    LET more == IF r.inf \/ n < r.hi
                THEN SelectSeq(Ends(r.r, s, i, ic), LAMBDA e : e > i)
                ELSE << >>
    IN  RepFrom(r, n + 1, s, more, ic) \o (IF n >= r.lo THEN <<i>> ELSE << >>)

RepFrom(r, n, s, starts, ic) ==
    IF starts = << >> THEN << >>
    ELSE RepEnds(r, n, s, Head(starts), ic) \o RepFrom(r, n, s, Tail(starts), ic)

\* re.match(pattern, s): a match exists at the start of s.
re_match(r, s) == Ends(r, s, 1, FALSE) # << >>

\* re.search(pattern, s, re.IGNORECASE).group(0), or None without a match:
\* the leftmost start position with a match, and the first end tried there.
RECURSIVE SearchFrom(_, _, _)
SearchFrom(r, s, i) ==
    IF i > Len(s) + 1 THEN None
    ELSE LET es == Ends(r, s, i, TRUE)
         IN  IF es # << >> THEN SubSeq(s, i, Head(es) - 1)
             ELSE SearchFrom(r, s, i + 1)

re_search(r, s) == SearchFrom(r, s, 1)

\* needle in haystack (substring test).
Contains(needle, hay) ==
    \E i \in 1..(Len(hay) - Len(needle) + 1) :
        SubSeq(hay, i, i + Len(needle) - 1) = needle

\* str.split(): the maximal runs of non-whitespace characters, in order.
RECURSIVE SplitFrom(_, _, _)
SplitFrom(s, i, cur) ==
    IF i > Len(s) THEN (IF cur = << >> THEN << >> ELSE <<cur>>)
    ELSE IF IsSpace(s[i])
         THEN (IF cur = << >> THEN << >> ELSE <<cur>>) \o SplitFrom(s, i + 1, << >>)
         ELSE SplitFrom(s, i + 1, Append(cur, s[i]))

split(s) == SplitFrom(s, 1, << >>)

\* str.strip()
RECURSIVE LStrip(_)
LStrip(s) == IF s # << >> /\ IsSpace(Head(s)) THEN LStrip(Tail(s)) ELSE s

RECURSIVE RStrip(_)
RStrip(s) ==
    IF s # << >> /\ IsSpace(s[Len(s)]) THEN RStrip(SubSeq(s, 1, Len(s) - 1)) ELSE s

strip(s) == RStrip(LStrip(s))

\* re.sub(r'\W+', ' ', s): every maximal run of non-word characters becomes
\* one space.
RECURSIVE SubNonWord(_, _)
SubNonWord(s, i) ==
    IF i > Len(s) THEN << >>
    ELSE IF IsWordChar(s[i]) THEN <<s[i]>> \o SubNonWord(s, i + 1)
         ELSE IF i > 1 /\ ~IsWordChar(s[i - 1]) THEN SubNonWord(s, i + 1)
              ELSE <<" ">> \o SubNonWord(s, i + 1)

\* normalize_text
normalize_text(text) ==
    IF ~Truthy(text) THEN None
    ELSE lower(strip(SubNonWord(text, 1)))

\* ------------------------------------------------------------------------
\* extract_vehicle_data
\* ------------------------------------------------------------------------

\* The keys of the patterns dict, in its iteration order.
Fields == <<"brand", "model", "generation", "engine", "engine_code", "type">>
FieldSet == {Fields[k] : k \in 1..Len(Fields)}

\* The keywords that mark a title as not vehicle-related.
NonVehicleKeywords ==
    {Chars("shirt"), Chars("book"), Chars("phone"), Chars("laptop"),
     Chars("jacket"), Chars("toy")}

UpperOrDigit == Upper \cup Digit
Letter == Upper \cup Lower

BrandNames ==
    <<
      "BMW", "Audi", "VW", "Volkswagen", "Ford", "Opel", "Dacia", "Mercedes",
      "Toyota", "Honda", "Peugeot", "Renault", "Skoda", "Seat", "Hyundai",
      "Kia", "Nissan", "Mitsubishi", "Lexus", "Chevrolet", "Porsche",
      "Volvo", "Citroen", "Mazda", "Subaru", "Jeep", "Land Rover"
    >>

ModelNames ==
    <<
      "3 Series", "5 Series", "E90", "E46", "E39", "E60", "E36", "Golf",
      "A4", "A6", "A3", "Focus", "Duster", "Astra", "C-Class", "E-Class",
      "S-Class", "Corolla", "Civic", "Clio", "Megane", "Octavia", "Ibiza",
      "Tucson", "Sportage", "Skyline", "Supra", "RX", "Camry", "Accord",
      "Fiesta", "Passat", "Leon", "Fabia", "Kona", "Santa Fe", "Outlander",
      "Impreza", "Wrangler", "Range Rover"
    >>

EngineCodes ==
    <<
      "N47", "BKC", "CAGA", "K9K", "CDNA", "OM642", "K4M", "EA888", "M54",
      "M62", "B58", "S55", "4JJ1", "1KD", "2JZ", "RB26"
    >>

\* patterns['brand']
BrandPattern == Cat(<<WordB, AltLits(BrandNames), WordB>>)

\* patterns['model']
ModelPattern == Cat(<<WordB, AltLits(ModelNames), WordB>>)

\* patterns['generation']: \b(MK[IVXLCDM]+|B\d+|G\d+|W\d+|F\d+|E\d+)\b
GenerationPattern ==
    Cat(<<WordB,
          Alt(<<Cat(<<Lit("MK"), Plus(Cls(CharSet("IVXLCDM")))>>),
                Cat(<<Lit("B"), Plus(Cls(Digit))>>),
                Cat(<<Lit("G"), Plus(Cls(Digit))>>),
                Cat(<<Lit("W"), Plus(Cls(Digit))>>),
                Cat(<<Lit("F"), Plus(Cls(Digit))>>),
                Cat(<<Lit("E"), Plus(Cls(Digit))>>)>>),
          WordB>>)

\* patterns['engine']:
\* \b(\d+\.\d+\s*(TFSI|TSI|TDI|HDi|dCi|[TLS]?[FS]?I)?)\b
EnginePattern ==
    Cat(<<WordB,
          Plus(Cls(Digit)), Lit("."), Plus(Cls(Digit)), Star(Cls({" "})),
          Opt(Alt(<<Lit("TFSI"), Lit("TSI"), Lit("TDI"), Lit("HDi"), Lit("dCi"),
                    Cat(<<Opt(Cls(CharSet("TLS"))), Opt(Cls(CharSet("FS"))),
                          Lit("I")>>)>>)),
          WordB>>)

\* patterns['engine_code']
EngineCodePattern == Cat(<<WordB, AltLits(EngineCodes), WordB>>)

\* [A-Z0-9]+\s*\d+\.\d+[A-Za-z]*
TypeShape ==
    Cat(<<Plus(Cls(UpperOrDigit)), Star(Cls({" "})), Plus(Cls(Digit)), Lit("."),
          Plus(Cls(Digit)), Star(Cls(Letter))>>)

\* patterns['type']:
\* \b(E90 320d|E90 325i|B8 2\.0 TDI|W204 220 CDI|[A-Z0-9]+\s*\d+\.\d+[A-Za-z]*)\b
TypePattern ==
    Cat(<<WordB,
          Alt(<<Lit("E90 320d"), Lit("E90 325i"), Lit("B8 2.0 TDI"),
                Lit("W204 220 CDI"), TypeShape>>),
          WordB>>)

patterns ==
    [brand |-> BrandPattern, model |-> ModelPattern,
     generation |-> GenerationPattern, engine |-> EnginePattern,
     engine_code |-> EngineCodePattern, type |-> TypePattern]

\* The shape tests of the fallback scan (re.match, case-sensitive).
\* ^[A-Z][a-zA-Z]+$
BrandShape == Cat(<<Cls(Upper), Plus(Cls(Letter)), EndA>>)
\* ^[A-Z0-9-]+$
ModelShape == Cat(<<Plus(Cls(UpperOrDigit \cup {"-"})), EndA>>)
\* ^[A-Z0-9]+\s*\d+\.\d+[A-Za-z]*$
TypeWordShape == Cat(<<TypeShape, EndA>>)
\* ^\d+\.\d+$
EngineShape == Cat(<<Plus(Cls(Digit)), Lit("."), Plus(Cls(Digit)), EndA>>)
\* ^[A-Z0-9]{3,6}$
EngineCodeShape == Cat(<<Rep(Cls(UpperOrDigit), 3, 6), EndA>>)

\* The result returned for an empty or non-vehicle title.
EmptyResult == [f \in FieldSet |-> None]

\* The triage test of extract_vehicle_data.
IsSkipped(title) ==
    \/ title = << >>
    \/ \E keyword \in NonVehicleKeywords : Contains(keyword, lower(title))

\* The primary pass: every field from its pattern, normalised.
PrimaryPass(title) ==
    [f \in FieldSet |->
        LET m == re_search(patterns[f], title)
        IN  IF m # None THEN normalize_text(m) ELSE None]

\* The condition under which the fallback scan runs.
NeedsFallback(result) ==
    ~Truthy(result["brand"]) \/ ~Truthy(result["model"]) \/ ~Truthy(result["type"])

\* word + (f" {words[i+1]}" if i+1 < len(words) else "")
WordPair(words, k) ==
    IF k + 1 <= Len(words) THEN words[k] \o <<" ">> \o words[k + 1] ELSE words[k]

\* The branch of the if/elif chain taken for words[k] (k counts from 1, the
\* code's i from 0), or "skip" when no branch is taken.
FallbackBranch(result, words, k) ==
    IF ~Truthy(result["brand"]) /\ re_match(BrandShape, words[k]) THEN "brand"
    ELSE IF /\ (Truthy(result["brand"]) \/ k > 1)
            /\ ~Truthy(result["model"])
            /\ re_match(ModelShape, words[k]) THEN "model"
    ELSE IF ~Truthy(result["type"]) /\ re_match(TypeWordShape, WordPair(words, k))
         THEN "type"
    ELSE IF ~Truthy(result["engine"]) /\ re_match(EngineShape, words[k])
         THEN "engine"
    ELSE IF ~Truthy(result["engine_code"]) /\ re_match(EngineCodeShape, words[k])
         THEN "engine_code"
    ELSE "skip"

\* The text the taken branch normalises.
FallbackText(words, k, branch) ==
    IF branch = "type" THEN WordPair(words, k) ELSE words[k]

\* One iteration of the fallback loop.
FallbackWord(result, words, k) ==
    LET branch == FallbackBranch(result, words, k)
    IN  IF branch = "skip" THEN result
        ELSE [result EXCEPT ![branch] = normalize_text(FallbackText(words, k, branch))]

RECURSIVE FallbackFrom(_, _, _)
FallbackFrom(result, words, k) ==
    IF k > Len(words) THEN result
    ELSE FallbackFrom(FallbackWord(result, words, k), words, k + 1)

\* extract_vehicle_data as a function of the title.
extract_vehicle_data(title) ==
    IF IsSkipped(title) THEN EmptyResult
    ELSE LET result == PrimaryPass(title)
         IN  IF NeedsFallback(result) THEN FallbackFrom(result, split(title), 1)
             ELSE result

\* ------------------------------------------------------------------------
\* The vehicle table and get_vehicle_tags
\* ------------------------------------------------------------------------

\* A row of the Vehicle table, with the columns get_vehicle_tags reads.
Row(brand, model, type, generation, engine_code, fuel_type, displacement) ==
    [brand |-> brand, model |-> model, type |-> type, generation |-> generation,
     engine_code |-> engine_code, fuel_type |-> fuel_type,
     displacement |-> displacement]

\* The rows written when the table is empty at start-up.
SampleVehicles ==
    {Row(Chars("BMW"), Chars("3 Series"), Chars("E90 320d"), Chars("MK5"),
         Chars("N47"), Chars("Diesel"), Chars("2.0L")),
     Row(Chars("BMW"), Chars("3 Series"), Chars("E90 325i"), Chars("MK5"),
         Chars("N52"), Chars("Petrol"), Chars("2.5L")),
     Row(Chars("Audi"), Chars("A4"), Chars("B8 2.0 TDI"), Chars("B8"),
         Chars("CAGA"), Chars("Diesel"), Chars("2.0L")),
     Row(Chars("Mercedes"), Chars("C-Class"), Chars("W204 220 CDI"),
         Chars("W204"), Chars("OM651"), Chars("Diesel"), Chars("2.2L"))}

\* A state of the Vehicle table, which this service only reads: the sample
\* rows and two rows stored since, one with engine code and fuel type but no
\* generation and no displacement, one with generation and displacement but
\* an empty engine code and no fuel type.
VehicleTable ==
    SampleVehicles
    \cup {Row(Chars("BMW"), Chars("A4"), Chars("E90 320d"), None, Chars("N47"),
              Chars("Diesel"), None),
          Row(Chars("Foo"), Chars("E90"), Chars("E90 320d"), Chars("MK5"), << >>,
              None, Chars("2.0L"))}

\* The result of .first() when no row matches (Python's None, as a row).
NoVehicle == Row(None, None, None, None, None, None, None)

\* column.ilike(pattern): case-insensitive LIKE; "_" in the pattern stands
\* for any one character ("%" is not in the modelled alphabet), and a NULL
\* on either side matches nothing.
ILike(value, pattern) ==
    /\ value # None
    /\ pattern # None
    /\ Len(value) = Len(pattern)
    /\ \A i \in 1..Len(value) :
          pattern[i] = "_" \/ ToLower(value[i]) = ToLower(pattern[i])

\* The rows the filter of get_vehicle_tags selects.
MatchingVehicles(vehicle_data) ==
    {v \in VehicleTable :
        /\ ILike(v.brand, vehicle_data["brand"])
        /\ ILike(v.model, vehicle_data["model"])
        /\ ILike(v.type, vehicle_data["type"])}

required_fields == {"brand", "model", "type"}

\* A guard that skips the query only when every required field is missing
\* ("not any" for "not all").
MissingRequiredNotAny(vehicle_data) ==
    \A f \in required_fields : ~Truthy(vehicle_data[f])

\* not all(vehicle_data.get(field) for field in required_fields)
MissingRequired(vehicle_data) ==
    \E f \in required_fields : ~Truthy(vehicle_data[f])

\* f"{a} {b}"
Sp(a, b) == a \o <<" ">> \o b

\* The tags get_vehicle_tags builds from the row the query returned
\* (NoVehicle when no row matches).
VehicleTags(vehicle) ==
    IF vehicle = NoVehicle THEN {}
    ELSE {vehicle.brand, vehicle.model, vehicle.type,
          Sp(vehicle.brand, vehicle.model),
          Sp(Sp(vehicle.brand, vehicle.model), vehicle.type)}
         \cup (IF Truthy(vehicle.engine_code) THEN {vehicle.engine_code} ELSE {})
         \cup (IF Truthy(vehicle.fuel_type) THEN {vehicle.fuel_type} ELSE {})
         \cup (IF Truthy(vehicle.displacement) THEN {vehicle.displacement} ELSE {})
         \cup (IF Truthy(vehicle.generation) THEN {vehicle.generation} ELSE {})

\* A test that takes every non-empty tag for a composite one.
HasSpaceAnyTag(tag) == tag # << >>

\* " " in tag
HasSpace(tag) == \E i \in 1..Len(tag) : tag[i] = " "

\* ------------------------------------------------------------------------
\* Requests
\* ------------------------------------------------------------------------

\* The most title fragments a modelled title is made of.
MaxFrags == 3

\* The largest collection id the shop hands out.
MaxCollectionId == 2

TitleFragments ==
    <<Chars("BMW"), Chars("A4"), Chars("E90 320d"), Chars("Foo"), Chars("-"),
      Chars("shirt")>>

RECURSIVE JoinFrags(_)
JoinFrags(ks) ==
    IF ks = << >> THEN << >>
    ELSE IF Len(ks) = 1 THEN TitleFragments[ks[1]]
    ELSE Sp(TitleFragments[ks[1]], JoinFrags(Tail(ks)))

\* The titles a webhook body may carry: up to MaxFrags fragments joined by
\* single spaces.
Titles ==
    {JoinFrags(ks) :
        ks \in UNION {[1..n -> 1..Len(TitleFragments)] : n \in 0..MaxFrags}}

ProductIds == {1001}
CollectionIds == 1..MaxCollectionId

\* No collection found by title (Python's None, falsy like 0).
NoId == 0

\* What request.get_json() meets.  "undecodable": not JSON, get_json raises;
\* "falsy": null, {}, [], 0 or ""; "number": a non-zero number or true;
\* "list_with_id": a JSON array holding the string "id"; "object": a JSON
\* object with has_id / has_title telling which keys it holds.
BodyOf(kind, has_id, has_title, id, t) ==
    [kind |-> kind, has_id |-> has_id, has_title |-> has_title, id |-> id, title |-> t]

Bodies ==
    {BodyOf(k, FALSE, FALSE, NoId, << >>) :
        k \in {"undecodable", "falsy", "number", "list_with_id"}}
    \cup {BodyOf("object", FALSE, TRUE, NoId, t) : t \in {Chars("BMW")}}
    \cup {BodyOf("object", TRUE, FALSE, id, << >>) : id \in ProductIds}
    \cup {BodyOf("object", TRUE, TRUE, id, t) : id \in ProductIds, t \in Titles}

NoResponse == [status |-> 0, error |-> "", tags |-> {}]
NoCall == [tag |-> None, id |-> NoId]

VARIABLES
    pc,             \* where handle_product_create stands
    sigValid,       \* whether the request's signature header matches its body
    body,           \* the request body
    product_id,     \* data['id']
    title,          \* data.get('title', '')
    vehicle_data,   \* the result dict of extract_vehicle_data
    wi,             \* index of the next word of the fallback scan
    assigns,        \* how often the fallback scan assigned each field
    matchOutcome,   \* how get_vehicle_tags ended
    vehicle,        \* the row the query returned
    tags,           \* the tags of the request
    todo,           \* the tags the for loop has not reached yet
    cur,            \* the tag of the current loop iteration
    collection_id,  \* collection_id in create_or_update_collection / the handler
    resolved,       \* the collection the shop reported for the current tag
    lastAdd,        \* the add_product_to_collection call of the current tag
    catalogReads,   \* Vehicle.query reads issued for this request
    applyCalls,     \* product update calls issued for this request
    ensureCalls,    \* create_or_update_collection calls per tag
    addCalls,       \* add_product_to_collection calls per tag
    ensuredOk,      \* tags whose create_or_update_collection returned
    reached,        \* pipeline stages this request reached
    response        \* the response returned

vars ==
    <<pc, sigValid, body, product_id, title, vehicle_data, wi, assigns,
      matchOutcome, vehicle, tags, todo, cur, collection_id, resolved, lastAdd,
      catalogReads, applyCalls, ensureCalls, addCalls, ensuredOk, reached,
      response>>

reqVars == <<sigValid, body>>
parseVars == <<product_id, title>>
extractVars == <<vehicle_data, wi, assigns>>
matchVars == <<matchOutcome, vehicle, tags, catalogReads>>
loopVars == <<todo, cur, collection_id, resolved, lastAdd>>
callVars == <<applyCalls, ensureCalls, addCalls, ensuredOk>>

Init ==
    /\ pc = "idle"
    /\ sigValid = TRUE
    /\ body = BodyOf("falsy", FALSE, FALSE, NoId, << >>)
    /\ product_id = NoId
    /\ title = << >>
    /\ vehicle_data = EmptyResult
    /\ wi = 1
    /\ assigns = [f \in FieldSet |-> 0]
    /\ matchOutcome = "none"
    /\ vehicle = NoVehicle
    /\ tags = {}
    /\ todo = {}
    /\ cur = None
    /\ collection_id = NoId
    /\ resolved = NoCall
    /\ lastAdd = NoCall
    /\ catalogReads = 0
    /\ applyCalls = 0
    /\ ensureCalls = << >>
    /\ addCalls = << >>
    /\ ensuredOk = {}
    /\ reached = {}
    /\ response = NoResponse


\* return jsonify(...), status
Respond(status, error, ts) ==
    /\ pc' = "done"
    /\ response' = [status |-> status, error |-> error, tags |-> ts]

\* A POST to /webhook/products/create arrives.  The route has no signature
\* check: nothing below reads sigValid.
Receive ==
    /\ pc = "idle"
    /\ \E sig \in BOOLEAN, b \in Bodies :
          /\ sigValid' = sig
          /\ body' = b
    /\ pc' = "received"
    /\ reached' = {"Received"}
    /\ UNCHANGED <<parseVars, extractVars, matchVars, loopVars, callVars, response>>

\* data = request.get_json(); the 'id' test; product_id and title.
ParseBody ==
    /\ pc = "received"
    /\ UNCHANGED <<reqVars, extractVars, matchVars, loopVars, callVars>>
    /\ \/ \* get_json raises BadRequest, caught by "except Exception"
          /\ body.kind = "undecodable"
          /\ Respond(500, "Internal server error", {})
          /\ UNCHANGED <<parseVars, reached>>
       \/ \* not data
          /\ body.kind = "falsy"
          /\ Respond(400, "Invalid request", {})
          /\ UNCHANGED <<parseVars, reached>>
       \/ \* 'id' not in data raises TypeError on a number
          /\ body.kind = "number"
          /\ Respond(500, "Internal server error", {})
          /\ UNCHANGED <<parseVars, reached>>
       \/ \* 'id' in data holds, data['id'] raises TypeError on a list
          /\ body.kind = "list_with_id"
          /\ Respond(500, "Internal server error", {})
          /\ UNCHANGED <<parseVars, reached>>
       \/ \* 'id' not in data
          /\ body.kind = "object"
          /\ ~body.has_id
          /\ Respond(400, "Invalid request", {})
          /\ UNCHANGED <<parseVars, reached>>
       \/ /\ body.kind = "object"
          /\ body.has_id
          /\ product_id' = body.id
          /\ title' = IF body.has_title THEN body.title ELSE << >>
          /\ pc' = "parsed"
          /\ reached' = reached \cup {"Parsed"}
          /\ UNCHANGED response

\* extract_vehicle_data up to the fallback loop: triage and primary pass.
ExtractPrimary ==
    /\ pc = "parsed"
    /\ LET result == IF IsSkipped(title) THEN EmptyResult ELSE PrimaryPass(title)
           scan == /\ ~IsSkipped(title)
                   /\ NeedsFallback(result)
                   /\ split(title) # << >>
       IN  /\ vehicle_data' = result
           /\ pc' = IF scan THEN "fallback" ELSE "extracted"
           /\ reached' = IF scan THEN reached ELSE reached \cup {"Extracted"}
    /\ UNCHANGED <<reqVars, parseVars, wi, assigns, matchVars, loopVars, callVars,
                   response>>

\* One iteration of the fallback loop over title.split().
FallbackStep ==
    /\ pc = "fallback"
    /\ LET words == split(title)
           branch == FallbackBranch(vehicle_data, words, wi)
       IN  /\ vehicle_data' = FallbackWord(vehicle_data, words, wi)
           /\ assigns' = IF branch = "skip" THEN assigns
                         ELSE [assigns EXCEPT ![branch] = @ + 1]
           /\ wi' = wi + 1
           /\ pc' = IF wi = Len(words) THEN "extracted" ELSE "fallback"
           /\ reached' = IF wi = Len(words) THEN reached \cup {"Extracted"}
                         ELSE reached
    /\ UNCHANGED <<reqVars, parseVars, matchVars, loopVars, callVars, response>>

\* get_vehicle_tags returns the tags list.
ReturnTags(outcome, v) ==
    /\ matchOutcome' = outcome
    /\ vehicle' = v
    /\ tags' = VehicleTags(v)
    /\ ensureCalls' = [t \in VehicleTags(v) |-> 0]
    /\ addCalls' = [t \in VehicleTags(v) |-> 0]
    /\ pc' = "tagged"
    /\ reached' = reached \cup {"Matched", "Tagged"}
    /\ UNCHANGED response

\* get_vehicle_tags
GetVehicleTags ==
    /\ pc = "extracted"
    /\ UNCHANGED <<reqVars, parseVars, extractVars, loopVars, applyCalls, ensuredOk>>
    /\ IF MissingRequired(vehicle_data)
       THEN /\ ReturnTags("NoQuery", NoVehicle)
            /\ UNCHANGED catalogReads
       ELSE /\ catalogReads' = catalogReads + 1
            /\ \/ \* the query raises; "except Exception" answers 500
                  /\ matchOutcome' = "Fault"
                  /\ Respond(500, "Internal server error", {})
                  /\ UNCHANGED <<vehicle, tags, ensureCalls, addCalls, reached>>
               \/ \* .first() of an unordered query: any matching row
                  \E v \in MatchingVehicles(vehicle_data) : ReturnTags("Found", v)
               \/ /\ MatchingVehicles(vehicle_data) = {}
                  /\ ReturnTags("NotFound", NoVehicle)

\* "if tags:" and the product update call.
ApplyTags ==
    /\ pc = "tagged"
    /\ UNCHANGED <<reqVars, parseVars, extractVars, matchVars, cur, collection_id,
                   resolved, lastAdd, ensureCalls, addCalls, ensuredOk>>
    /\ IF tags = {}
       THEN /\ Respond(200, "", tags)
            /\ reached' = reached \cup {"Dispatched"}
            /\ UNCHANGED <<applyCalls, todo>>
       ELSE /\ applyCalls' = applyCalls + 1
            /\ \/ \* raise_for_status raises
                  /\ Respond(500, "Failed to update product", {})
                  /\ UNCHANGED <<todo, reached>>
               \/ /\ pc' = "loop"
                  /\ todo' = tags
                  /\ UNCHANGED <<reached, response>>

\* "for tag in tags": the next tag of the list, in whatever order list(tags)
\* put the set; a tag without a space is passed over.
LoopNext ==
    /\ pc = "loop"
    /\ todo # {}
    /\ \E tag \in todo :
          /\ todo' = todo \ {tag}
          /\ cur' = tag
          /\ pc' = IF HasSpace(tag) THEN "coll_get" ELSE "loop"
    /\ collection_id' = NoId
    /\ resolved' = NoCall
    /\ lastAdd' = NoCall
    /\ UNCHANGED <<reqVars, parseVars, extractVars, matchVars, callVars, reached,
                   response>>

\* The loop is over: return success with the tags.
LoopDone ==
    /\ pc = "loop"
    /\ todo = {}
    /\ Respond(200, "", tags)
    /\ reached' = reached \cup {"Dispatched"}
    /\ UNCHANGED <<reqVars, parseVars, extractVars, matchVars, loopVars, callVars>>

\* create_or_update_collection: the GET of the custom collections and the
\* search for one with the title.
CollectionLookup ==
    /\ pc = "coll_get"
    /\ ensureCalls' = [ensureCalls EXCEPT ![cur] = @ + 1]
    /\ UNCHANGED <<reqVars, parseVars, extractVars, matchVars, todo, cur, resolved,
                   lastAdd, applyCalls, addCalls, ensuredOk, reached>>
    /\ \/ /\ Respond(500, "Failed to update product", {})
          /\ UNCHANGED collection_id
       \/ /\ \E id \in CollectionIds \cup {NoId} : collection_id' = id
          /\ pc' = "coll_write"
          /\ UNCHANGED response

\* A create_or_update_collection that returns the id its lookup found.
ReturnedLookedUpId(looked_up, in_response) == looked_up

\* The id create_or_update_collection returns: the one in the response.
ReturnedCollectionId(looked_up, in_response) == in_response

\* create_or_update_collection: the PUT or POST of the collection and the
\* return of the id in the response.
CollectionWrite ==
    /\ pc = "coll_write"
    /\ UNCHANGED <<reqVars, parseVars, extractVars, matchVars, todo, cur, lastAdd,
                   applyCalls, ensureCalls, addCalls, reached>>
    /\ \/ /\ Respond(500, "Failed to update product", {})
          /\ UNCHANGED <<collection_id, resolved, ensuredOk>>
       \/ \* PUT: the shop answers with the collection updated
          /\ collection_id # NoId
          /\ resolved' = [tag |-> cur, id |-> collection_id]
          /\ collection_id' = ReturnedCollectionId(collection_id, collection_id)
          /\ ensuredOk' = ensuredOk \cup {cur}
          /\ pc' = "add"
          /\ UNCHANGED response
       \/ \* POST: the shop answers with the collection created
          /\ collection_id = NoId
          /\ \E id \in CollectionIds :
                /\ resolved' = [tag |-> cur, id |-> id]
                /\ collection_id' = ReturnedCollectionId(collection_id, id)
          /\ ensuredOk' = ensuredOk \cup {cur}
          /\ pc' = "add"
          /\ UNCHANGED response

\* The arguments of the add_product_to_collection call in the handler.
AddProductArgs(pid, cid) == [product_id |-> pid, collection_id |-> cid]

\* add_product_to_collection
AddProduct ==
    /\ pc = "add"
    /\ addCalls' = [addCalls EXCEPT ![cur] = @ + 1]
    /\ lastAdd' = [tag |-> cur, id |-> AddProductArgs(product_id, collection_id).collection_id]
    /\ UNCHANGED <<reqVars, parseVars, extractVars, matchVars, todo, cur,
                   collection_id, resolved, applyCalls, ensureCalls, ensuredOk,
                   reached>>
    /\ \/ Respond(500, "Failed to update product", {})
       \/ /\ pc' = "loop"
          /\ UNCHANGED response

\* The response is sent; the worker waits for the next request, with nothing
\* kept from this one.
Return ==
    /\ pc = "done"
    /\ pc' = "idle"
    /\ sigValid' = TRUE
    /\ body' = BodyOf("falsy", FALSE, FALSE, NoId, << >>)
    /\ product_id' = NoId
    /\ title' = << >>
    /\ vehicle_data' = EmptyResult
    /\ wi' = 1
    /\ assigns' = [f \in FieldSet |-> 0]
    /\ matchOutcome' = "none"
    /\ vehicle' = NoVehicle
    /\ tags' = {}
    /\ todo' = {}
    /\ cur' = None
    /\ collection_id' = NoId
    /\ resolved' = NoCall
    /\ lastAdd' = NoCall
    /\ catalogReads' = 0
    /\ applyCalls' = 0
    /\ ensureCalls' = << >>
    /\ addCalls' = << >>
    /\ ensuredOk' = {}
    /\ reached' = {}
    /\ response' = NoResponse

Next ==
    \/ Receive
    \/ ParseBody
    \/ ExtractPrimary
    \/ FallbackStep
    \/ GetVehicleTags
    \/ ApplyTags
    \/ LoopNext
    \/ LoopDone
    \/ CollectionLookup
    \/ CollectionWrite
    \/ AddProduct
    \/ Return

Spec == Init /\ [][Next]_vars

\* ------------------------------------------------------------------------
\* Properties
\* ------------------------------------------------------------------------

\* No external call has been issued for this request.
NoExternalCall ==
    /\ applyCalls = 0
    /\ \A t \in DOMAIN ensureCalls : ensureCalls[t] = 0
    /\ \A t \in DOMAIN addCalls : addCalls[t] = 0

\* The request body is a JSON object holding the key 'id'.
BodyHasId == body.kind = "object" /\ body.has_id

\* The tag holds a space.
IsComposite(t) == \E i \in DOMAIN t : t[i] = " "

\* C1: a request whose signature does not verify stops before the payload is
\* parsed: it reaches no stage after Received, reads no catalog row and
\* makes no external call.
AuthenticationGate ==
    (pc # "idle" /\ ~sigValid) =>
        /\ reached \subseteq {"Received"}
        /\ catalogReads = 0
        /\ NoExternalCall

\* C2: when brand, model or type of the extraction is None or empty,
\* get_vehicle_tags returns no tags and issues no catalog read.
RequiredFieldGuard ==
    ("Extracted" \in reached
        /\ \E f \in {"brand", "model", "type"} : ~Truthy(vehicle_data[f])) =>
        /\ catalogReads = 0
        /\ tags = {}
        /\ matchOutcome \in {"none", "NoQuery"}

\* C2 happens: get_vehicle_tags returned for an extraction that has brand
\* and model but no type.
RequiredFieldGuardWitness ==
    /\ pc = "tagged"
    /\ matchOutcome = "NoQuery"
    /\ Truthy(vehicle_data["brand"])
    /\ Truthy(vehicle_data["model"])
    /\ ~Truthy(vehicle_data["type"])

\* C3: when all required fields are extracted and the catalog has no
\* matching row, the tags hold the extracted brand, model and type and the
\* composite "brand model".
NotFoundDegrades ==
    matchOutcome = "NotFound" =>
        {vehicle_data["brand"], vehicle_data["model"], vehicle_data["type"],
         Sp(vehicle_data["brand"], vehicle_data["model"])} \subseteq tags

\* The tags the Found case is to yield: those of the row, with
\* "brand model generation" when the row has a generation.
FoundComposition(v) ==
    {v.brand, v.model, v.type, Sp(v.brand, v.model),
     Sp(Sp(v.brand, v.model), v.type)}
    \cup {x \in {v.engine_code, v.fuel_type, v.displacement, v.generation} :
            Truthy(x)}
    \cup (IF Truthy(v.generation)
          THEN {Sp(Sp(v.brand, v.model), v.generation)} ELSE {})

\* C4: when the catalog lookup finds a row, the tags are exactly the row's
\* brand, model, type, "brand model", "brand model type" and, each only if
\* non-empty, engine_code, fuel_type, displacement, generation and
\* "brand model generation".
FoundTagsExact ==
    matchOutcome = "Found" => tags = FoundComposition(vehicle)

\* C5: with no tags no external call is made and the request succeeds with
\* empty tags; with tags and no failing call the product update is made
\* once, and the collection hand-off once per tag with a space and never
\* for a tag without one.
DispatchCounts ==
    /\ applyCalls <= 1
    /\ \A t \in DOMAIN ensureCalls :
          /\ ensureCalls[t] <= 1
          /\ addCalls[t] <= 1
          /\ ~IsComposite(t) => ensureCalls[t] = 0 /\ addCalls[t] = 0
    /\ ("Tagged" \in reached /\ tags = {}) =>
          /\ NoExternalCall
          /\ pc = "done" => response = [status |-> 200, error |-> "", tags |-> {}]
    /\ (pc = "done" /\ response.status = 200 /\ tags # {}) =>
          /\ applyCalls = 1
          /\ response.tags = tags
          /\ \A t \in tags :
                IsComposite(t) => ensureCalls[t] = 1 /\ addCalls[t] = 1

\* C5 happens: a request with composite and plain tags ended in success.
DispatchCountsWitness ==
    /\ pc = "done"
    /\ response.status = 200
    /\ \E t \in tags : IsComposite(t)
    /\ \E t \in tags : ~IsComposite(t)

\* C6: add_product_to_collection is attempted for a tag only after
\* create_or_update_collection returned for that tag, and with the
\* collection id the shop reported; never for a tag whose
\* create_or_update_collection failed.
CollectionBeforeAdd ==
    /\ lastAdd # NoCall =>
          /\ lastAdd.tag = cur
          /\ resolved.tag = cur
          /\ lastAdd.id = resolved.id
          /\ lastAdd.id \in CollectionIds
    /\ \A t \in DOMAIN addCalls : addCalls[t] > 0 => t \in ensuredOk
    /\ \A t \in ensuredOk : ensureCalls[t] > 0

\* C6 happens: the product was added to the collection of the current tag
\* and the loop went on.
CollectionBeforeAddWitness ==
    /\ pc = "loop"
    /\ lastAdd # NoCall
    /\ addCalls[cur] = 1

\* C7: a catalog read that fails is recovered: the request goes on to the
\* Tagged stage and does not end in an error response.
CatalogFaultRecovered ==
    matchOutcome = "Fault" =>
        /\ "Tagged" \in reached
        /\ pc = "done" => response.status = 200

\* C8: a body that is no object with an 'id' key ends in a client-error
\* status, without extraction, catalog read or external call; a body with
\* 'id' and no 'title' is processed with the empty title.
MalformedRejected ==
    /\ (pc = "done" /\ ~BodyHasId) =>
          /\ response.status \in 400..499
          /\ reached \subseteq {"Received"}
          /\ catalogReads = 0
          /\ NoExternalCall
    /\ (BodyHasId /\ ~body.has_title /\ "Parsed" \in reached) => title = << >>

\* C9: normalize_text is idempotent on its results, which are never the
\* empty string: every value normalize_text put into the extraction result
\* is non-empty and normalises to itself.
NormalizeIdempotent ==
    \A f \in FieldSet :
        vehicle_data[f] # None =>
            /\ vehicle_data[f] # << >>
            /\ normalize_text(vehicle_data[f]) = vehicle_data[f]

\* C10: the fallback scan assigns each field at most once.
FallbackAssignsOnce ==
    \A f \in FieldSet : assigns[f] <= 1

====
